---- MODULE Spec2Model ----
(***************************************************************************)
(* State-machine model of src/app.py: the scheduled screenshot pipeline    *)
(* (process_screenshot and the functions it calls), the interval scheduler *)
(* that starts it, and the Flask read endpoint GET /report.                *)
(*                                                                         *)
(* Time is counted in ticks; one tick is one scheduler interval.  A        *)
(* calendar day is DayLen ticks long.  Files of the screenshots directory  *)
(* are named by tuples: <<"combined_report", d>> is                        *)
(* combined_report_<d>.json, <<"combined_report">> is combined_report.json,*)
(* <<"readable_report", d>> is readable_report_<d>.txt and                 *)
(* <<"screenshot", t>> / <<"screenshot_preprocessed", t>> are the images.  *)
(***************************************************************************)
EXTENDS Integers, Sequences, FiniteSets, TLC

\* ---------------------------------------------------------------- bounds
MaxRuns == 3           \* interval triggers that fire before the clock stops
DayLen == 2            \* ticks per calendar day
NSlots == 2            \* executor threads the scheduler could hand a job to

\* the program is started two ticks before the first midnight
StartClock == DayLen - 2
MaxClock == StartClock + MaxRuns

\* ------------------------------------------------------ program constants
max_instances == 1     \* scheduler.add_job(..., max_instances=1)

Slots == 1..NSlots
Dates == 0..(MaxClock \div DayLen)

\* OCR results (' '.join of the recognised fragments), as character sequences
Texts == { <<>>, <<"a", "!">> }

VARIABLES
    clock,          \* the wall clock, in ticks
    nextFire,       \* the tick at which the interval trigger fires next
    job,            \* per executor slot: the locals of a process_screenshot run
    images,         \* image files present in the screenshots directory
    reportFiles,    \* JSON report files present: name -> [ok, data]
    readableFiles,  \* readable report files present: name -> paragraphs
    summarizer,     \* the summarization pipeline: cleaned text -> response
    resp,           \* the last response of GET /report
    stored,         \* history: last sequence completely written, per date
    log,            \* history: analyses whose store write completed, per date
    probe           \* results recorded by the function-level specifications

vars == <<clock, nextFire, job, images, reportFiles, readableFiles,
          summarizer, resp, stored, log, probe>>

\* ------------------------------------------------------------ clock reads
\* time.strftime("%Y-%m-%d %H:%M:%S", time.localtime())
strftime(t) == [date |-> t \div DayLen, time |-> t % DayLen]

\* datetime.datetime.strptime(ts, "%Y-%m-%d %H:%M:%S")
strptime(ts) == ts.date * DayLen + ts.time

\* datetime.datetime.now().strftime("%Y-%m-%d")
today_date(t) == t \div DayLen

\* str(latest - first): a timedelta prints as days and a time of day
timedelta_str(d) == [days |-> d \div DayLen, time |-> d % DayLen]

\* ------------------------------------------------------------- file names
ReportFile(d) == <<"combined_report", d>>
LegacyReportFile == <<"combined_report">>
ReadableFile(d) == <<"readable_report", d>>
ScreenshotPath(t) == <<"screenshot", t>>
PreprocessedPath(p) == <<"screenshot_preprocessed", p[2]>>

WriteFile(files, name, content) == (name :> content) @@ files

\* -------------------------------------------------- text normalisation
NL == "\n"
WordChars == {"a", "b", "c", "h", "p", "s", "t", "w", "x", "0", "1", "_"}
IsWord(c) == c \in WordChars                    \* regex \w
IsSpace(c) == c \in {" ", NL, "\t"}             \* regex \s

StartsWith(t, p) == Len(t) >= Len(p) /\ SubSeq(t, 1, Len(p)) = p
Drop(t, n) == SubSeq(t, n + 1, Len(t))

RECURSIVE SkipNonSpace(_)
SkipNonSpace(t) ==
    IF t = <<>> \/ IsSpace(Head(t)) THEN t ELSE SkipNonSpace(Tail(t))

RECURSIVE SkipSpace(_)
SkipSpace(t) ==
    IF t = <<>> \/ ~IsSpace(Head(t)) THEN t ELSE SkipSpace(Tail(t))

\* length of the scheme matched by  https?://\S+|www\.\S+  at the start of
\* t, 0 when the pattern does not match there (\S+ needs one character)
UrlPrefixLen(t) ==
    LET Matches(p) == /\ StartsWith(t, p)
                      /\ Len(t) > Len(p)
                      /\ ~IsSpace(t[Len(p) + 1])
    IN  IF Matches(<<"h", "t", "t", "p", "s", ":", "/", "/">>) THEN 8
        ELSE IF Matches(<<"h", "t", "t", "p", ":", "/", "/">>) THEN 7
        ELSE IF Matches(<<"w", "w", "w", ".">>) THEN 4
        ELSE 0

\* re.sub(r'https?://\S+|www\.\S+', '', text)
RECURSIVE RemoveUrls(_)
RemoveUrls(t) ==
    IF t = <<>> THEN <<>>
    ELSE LET n == UrlPrefixLen(t)
         IN  IF n > 0 THEN RemoveUrls(SkipNonSpace(Drop(t, n)))
             ELSE <<Head(t)>> \o RemoveUrls(Tail(t))

\* '.*$' from the start of u: '.' stops at a newline, '$' matches at the
\* end of the string or before a newline that ends the string
LineEndsString(u) == \A i \in 1..Len(u) : u[i] = NL => i = Len(u)

\* re.sub(r'\?.*$', '', text)
RECURSIVE RemoveQuery(_)
RemoveQuery(t) ==
    IF t = <<>> THEN <<>>
    ELSE IF Head(t) = "?" /\ LineEndsString(Tail(t))
         THEN IF t[Len(t)] = NL THEN <<NL>> ELSE <<>>
         ELSE <<Head(t)>> \o RemoveQuery(Tail(t))

\* re.sub(r'[^\w\s]', '', text)
RemoveSpecial(t) == SelectSeq(t, LAMBDA c : IsWord(c) \/ IsSpace(c))

\* re.sub(r'\s+', ' ', text)
RECURSIVE CollapseSpaces(_)
CollapseSpaces(t) ==
    IF t = <<>> THEN <<>>
    ELSE IF IsSpace(Head(t)) THEN <<" ">> \o CollapseSpaces(SkipSpace(Tail(t)))
         ELSE <<Head(t)>> \o CollapseSpaces(Tail(t))

\* str.strip()
RECURSIVE StripRight(_)
StripRight(t) ==
    IF t = <<>> \/ ~IsSpace(t[Len(t)]) THEN t
    ELSE StripRight(SubSeq(t, 1, Len(t) - 1))

Strip(t) == StripRight(SkipSpace(t))

\* variant: the whitespace is normalised before the special characters go
preprocess_text_reordered(text) ==
    RemoveSpecial(Strip(CollapseSpaces(RemoveQuery(RemoveUrls(text)))))

preprocess_text(text) ==
    Strip(CollapseSpaces(RemoveSpecial(RemoveQuery(RemoveUrls(text)))))

CleanTexts == { preprocess_text(t) : t \in Texts }

\* ------------------------------------------------------- report records
\* analysis_report of analyze_screenshot
AnalysisReport(text, t) ==
    [analysis |-> [text |-> text, timestamp |-> strftime(t)]]

\* variant: the parse error is swallowed and the file read as empty
json_load_swallowed(files, report_file) == FALSE

\* json.load(f) raises on a report file that does not hold a JSON document
json_load_raises(files, report_file) ==
    report_file \in DOMAIN files /\ ~files[report_file].ok

\* existing_reports as read back by process_screenshot
load_reports(files, report_file) ==
    IF report_file \in DOMAIN files THEN files[report_file].data ELSE <<>>

\* variant: the new report is inserted in front of the existing ones
append_report_front(existing_reports, report) ==
    <<report>> \o existing_reports

\* variant: total_time is removed from the earlier reports
append_report_last_only(existing_reports, report) ==
    LET cleared == [i \in 1..Len(existing_reports) |->
                       [analysis |-> existing_reports[i].analysis]]
        appended == Append(cleared, report)
    IN  IF Len(appended) > 1
        THEN [appended EXCEPT ![Len(appended)] =
                 [analysis |-> report.analysis,
                  total_time |-> timedelta_str(
                      strptime(report.analysis.timestamp)
                      - strptime(appended[1].analysis.timestamp))]]
        ELSE appended

\* variant: the difference is taken from the previous report
append_report_since_previous(existing_reports, report) ==
    LET appended == Append(existing_reports, report)
    IN  IF Len(appended) > 1
        THEN [appended EXCEPT ![Len(appended)] =
                 [analysis |-> report.analysis,
                  total_time |-> timedelta_str(
                      strptime(report.analysis.timestamp)
                      - strptime(appended[Len(appended) - 1]
                                     .analysis.timestamp))]]
        ELSE appended

\* variant: total_time is also set on the only report of a day
append_report_always(existing_reports, report) ==
    LET appended == Append(existing_reports, report)
    IN  [appended EXCEPT ![Len(appended)] =
            [analysis |-> report.analysis,
             total_time |-> timedelta_str(
                 strptime(report.analysis.timestamp)
                 - strptime(appended[1].analysis.timestamp))]]

\* existing_reports.append(report), then total_time on the most recent one
append_report(existing_reports, report) ==
    LET appended == Append(existing_reports, report)
        first_report_time == strptime(appended[1].analysis.timestamp)
        latest_report_time == strptime(report.analysis.timestamp)
        time_difference == latest_report_time - first_report_time
    IN  IF Len(appended) > 1
        THEN [appended EXCEPT ![Len(appended)] =
                 [analysis |-> report.analysis,
                  total_time |-> timedelta_str(time_difference)]]
        ELSE appended

\* ------------------------------------------------------ readable report
get_username == "User"

\* summarizer(cleaned_text, ...)[0]['summary_text']
summary_text(cleaned_text) == <<"summary", cleaned_text>>

\* str(TextBlob(text).correct())
frame_sentence(text) == <<"corrected", text>>

NoSummary == <<"Summary could not be generated.">>

\* the default of report.get("total_time", "N/A")
NotAvailable == [str |-> "N/A"]

\* variant: the elapsed time is looked up under a key no report has
formatted_entry_wrong_key(report, summarize) ==
    LET cleaned_text == preprocess_text(report.analysis.text)
    IN  [timestamp |-> report.analysis.timestamp,
         username |-> get_username,
         framed_text |-> IF summarize[cleaned_text] = "summary"
                         THEN frame_sentence(summary_text(cleaned_text))
                         ELSE NoSummary,
         time_difference |-> IF "time_difference" \in DOMAIN report
                             THEN report.time_difference
                             ELSE NotAvailable]

\* one formatted_entry of generate_readable_report
formatted_entry(report, summarize) ==
    LET cleaned_text == preprocess_text(report.analysis.text)
    IN  [timestamp |-> report.analysis.timestamp,
         username |-> get_username,
         framed_text |-> IF summarize[cleaned_text] = "summary"
                         THEN frame_sentence(summary_text(cleaned_text))
                         ELSE NoSummary,
         time_difference |-> IF "total_time" \in DOMAIN report
                             THEN report.total_time
                             ELSE NotAvailable]

\* the summarizer call raises for some report of the sequence
summarizer_raises(reports, summarize) ==
    \E i \in 1..Len(reports) :
        summarize[preprocess_text(reports[i].analysis.text)] = "raise"

readable_report(reports, summarize) ==
    [i \in 1..Len(reports) |-> formatted_entry(reports[i], summarize)]

\* variant: the file is opened in append mode
write_text_append(files, summary_file, text) ==
    IF summary_file \in DOMAIN files
    THEN (summary_file :> (files[summary_file] \o text)) @@ files
    ELSE (summary_file :> text) @@ files

\* with open(summary_file, "w") as f: f.write(readable_report)
write_text(files, summary_file, text) == WriteFile(files, summary_file, text)

\* ------------------------------------------------------------ the state
NoReport == AnalysisReport(<<>>, 0)

IdleJob ==
    [pc |-> "idle", screenshot_path |-> ScreenshotPath(0), report |-> NoReport,
     report_file |-> ReportFile(0), existing_reports |-> <<>>,
     outcome |-> "none",
     before |-> [reports |-> <<>>, readable |-> <<>>]]

\* the locals of a run that has just been started; before remembers the
\* report files the run found (history, not read by the program)
StartedJob ==
    [IdleJob EXCEPT !.pc = "capture",
                    !.before = [reports |-> reportFiles,
                                readable |-> readableFiles]]

Running == { s \in Slots : job[s].pc # "idle" }

Init ==
    /\ clock = StartClock
    /\ nextFire = StartClock + 1
    /\ job = [s \in Slots |-> IdleJob]
    /\ images = {}
    /\ reportFiles = <<>>
    /\ readableFiles = <<>>
    /\ summarizer \in [CleanTexts -> {"summary", "empty", "raise"}]
    /\ resp = [status |-> 0, body |-> <<>>]
    /\ stored = [d \in Dates |-> <<>>]
    /\ log = [d \in Dates |-> <<>>]
    /\ probe = <<>>

\* a run ends: the job function returns or raises, the slot is free again
Ended(s, outcome) ==
    [IdleJob EXCEPT !.outcome = outcome]

\* ------------------------------------------------------------ scheduler
Tick ==
    /\ clock < nextFire
    /\ clock < MaxClock
    /\ clock' = clock + 1
    /\ UNCHANGED <<nextFire, job, images, reportFiles, readableFiles,
                   summarizer, resp, stored, log, probe>>

\* variant: one run more than max_instances is let through
may_start_one_more(running) == Cardinality(running) <= max_instances

\* the job may start when fewer than max_instances runs are in flight
may_start(running) == Cardinality(running) < max_instances

\* the interval trigger fires: a run starts, or the trigger is dropped
scheduler ==
    /\ clock = nextFire
    /\ nextFire' = nextFire + 1
    /\ \/ /\ may_start(Running)
          /\ \E s \in Slots :
                /\ job[s].pc = "idle"
                /\ \A r \in Slots : job[r].pc = "idle" => s <= r
                /\ job' = [job EXCEPT ![s] = StartedJob]
       \/ /\ ~may_start(Running)
          /\ UNCHANGED job
    /\ UNCHANGED <<clock, images, reportFiles, readableFiles, summarizer,
                   resp, stored, log, probe>>

\* ------------------------------------------------- process_screenshot
take_screenshot(s) ==
    /\ job[s].pc = "capture"
    /\ \/ /\ images' = images \cup {ScreenshotPath(clock)}
          /\ job' = [job EXCEPT ![s].pc = "analyze",
                                ![s].screenshot_path = ScreenshotPath(clock)]
       \/ /\ job' = [job EXCEPT ![s] = Ended(s, "capture_failed")]
          /\ UNCHANGED images
    /\ UNCHANGED <<clock, nextFire, reportFiles, readableFiles, summarizer,
                   resp, stored, log, probe>>

\* variant: a failed extraction still stores a record with empty text
analyze_screenshot_partial(s) ==
    /\ job[s].pc = "analyze"
    /\ \/ \E text \in Texts :
             /\ job' = [job EXCEPT ![s].pc = "load",
                                   ![s].report = AnalysisReport(text, clock)]
             /\ UNCHANGED <<images, reportFiles>>
       \/ /\ job' = [job EXCEPT ![s] = Ended(s, "extract_failed")]
          /\ images' = images \cup {PreprocessedPath(job[s].screenshot_path)}
          /\ LET report_file == ReportFile(today_date(clock))
             IN  reportFiles' = WriteFile(reportFiles, report_file,
                     [ok |-> TRUE,
                      data |-> Append(load_reports(reportFiles, report_file),
                                      AnalysisReport(<<>>, clock))])
    /\ UNCHANGED <<clock, nextFire, readableFiles, summarizer, resp,
                   stored, log, probe>>

analyze_screenshot(s) ==
    /\ job[s].pc = "analyze"
    /\ \/ \E text \in Texts :
             /\ job' = [job EXCEPT ![s].pc = "load",
                                   ![s].report = AnalysisReport(text, clock)]
             /\ UNCHANGED images
       \/ \* preprocess_image raises: no preprocessed image was saved
          /\ job' = [job EXCEPT ![s] = Ended(s, "extract_failed")]
          /\ UNCHANGED images
       \/ \* reader.readtext raises: the preprocessed image is not removed
          /\ job' = [job EXCEPT ![s] = Ended(s, "extract_failed")]
          /\ images' = images \cup {PreprocessedPath(job[s].screenshot_path)}
    /\ UNCHANGED <<clock, nextFire, reportFiles, readableFiles, summarizer,
                   resp, stored, log, probe>>

\* lines 152-176: pick the report file of today, read it, append
read_and_append(s) ==
    /\ job[s].pc = "load"
    /\ LET report_file == ReportFile(today_date(clock))
       IN  IF json_load_raises(reportFiles, report_file)
           THEN job' = [job EXCEPT ![s] = Ended(s, "load_failed")]
           ELSE job' = [job EXCEPT
                    ![s].pc = "open",
                    ![s].report_file = report_file,
                    ![s].existing_reports =
                        append_report(load_reports(reportFiles, report_file),
                                      job[s].report)]
    /\ UNCHANGED <<clock, nextFire, images, reportFiles, readableFiles,
                   summarizer, resp, stored, log, probe>>

\* open(report_file, "w"): the file is created or truncated
open_report_file(s) ==
    /\ job[s].pc = "open"
    /\ \/ /\ reportFiles' = WriteFile(reportFiles, job[s].report_file,
                                      [ok |-> FALSE, data |-> <<>>])
          /\ job' = [job EXCEPT ![s].pc = "dump"]
       \/ \* open raises: nothing was touched
          /\ job' = [job EXCEPT ![s] = Ended(s, "write_failed")]
          /\ UNCHANGED reportFiles
    /\ UNCHANGED <<clock, nextFire, images, readableFiles, summarizer, resp,
                   stored, log, probe>>

\* json.dump(existing_reports, f, indent=4) and the close of the file
dump_reports(s) ==
    /\ job[s].pc = "dump"
    /\ LET d == job[s].report_file[2]
       IN  \/ /\ reportFiles' = WriteFile(reportFiles, job[s].report_file,
                        [ok |-> TRUE, data |-> job[s].existing_reports])
              /\ job' = [job EXCEPT ![s].pc = "generate"]
              /\ stored' = [stored EXCEPT ![d] = job[s].existing_reports]
              /\ log' = [log EXCEPT ![d] = Append(@, job[s].report.analysis)]
           \/ \* the write raises midway: the file keeps what was written
              /\ job' = [job EXCEPT ![s] = Ended(s, "write_failed")]
              /\ UNCHANGED <<reportFiles, stored, log>>
    /\ UNCHANGED <<clock, nextFire, images, readableFiles, summarizer, resp, probe>>

\* variant: the elapsed time is popped from the reports while formatting
generate_readable_report_pops(s) ==
    /\ job[s].pc = "generate"
    /\ LET reports == job[s].existing_reports
           summary_file == ReadableFile(today_date(clock))
       IN  IF summarizer_raises(reports, summarizer)
           THEN /\ job' = [job EXCEPT ![s] = Ended(s, "summarize_failed")]
                /\ UNCHANGED readableFiles
           ELSE /\ readableFiles' = write_text(readableFiles, summary_file,
                                     readable_report(reports, summarizer))
                /\ job' = [job EXCEPT
                              ![s].pc = "cleanup",
                              ![s].existing_reports =
                                  [i \in 1..Len(reports) |->
                                      [analysis |-> reports[i].analysis]]]
    /\ UNCHANGED <<clock, nextFire, images, reportFiles, summarizer, resp,
                   stored, log, probe>>

generate_readable_report(s) ==
    /\ job[s].pc = "generate"
    /\ LET reports == job[s].existing_reports
           summary_file == ReadableFile(today_date(clock))
       IN  IF summarizer_raises(reports, summarizer)
           THEN /\ job' = [job EXCEPT ![s] = Ended(s, "summarize_failed")]
                /\ UNCHANGED readableFiles
           ELSE \/ /\ readableFiles' = write_text(readableFiles, summary_file,
                                    readable_report(reports, summarizer))
                   /\ job' = [job EXCEPT ![s].pc = "cleanup"]
                \/ \* open(summary_file, "w") raises
                   /\ job' = [job EXCEPT ![s] = Ended(s, "readable_failed")]
                   /\ UNCHANGED readableFiles
    /\ UNCHANGED <<clock, nextFire, images, reportFiles, summarizer, resp,
                   stored, log, probe>>

\* os.remove(screenshot_path) and the return
remove_screenshot(s) ==
    /\ job[s].pc = "cleanup"
    /\ IF job[s].screenshot_path \in images
       THEN /\ images' = images \ {job[s].screenshot_path}
            /\ job' = [job EXCEPT ![s] = Ended(s, "ok")]
       ELSE /\ job' = [job EXCEPT ![s] = Ended(s, "cleanup_failed")]
            /\ UNCHANGED images
    /\ UNCHANGED <<clock, nextFire, reportFiles, readableFiles, summarizer,
                   resp, stored, log, probe>>

process_screenshot(s) ==
    \/ take_screenshot(s)
    \/ analyze_screenshot(s)
    \/ read_and_append(s)
    \/ open_report_file(s)
    \/ dump_reports(s)
    \/ generate_readable_report(s)
    \/ remove_screenshot(s)

\* variant: a missing report file is created empty and served
get_latest_report_creates ==
    /\ resp' = [status |-> 200, body |-> load_reports(reportFiles,
                                             ReportFile(today_date(clock)))]
    /\ reportFiles' = IF ReportFile(today_date(clock)) \in DOMAIN reportFiles
                      THEN reportFiles
                      ELSE WriteFile(reportFiles, ReportFile(today_date(clock)),
                                     [ok |-> TRUE, data |-> <<>>])
    /\ UNCHANGED <<clock, nextFire, job, images, readableFiles, summarizer,
                   stored, log, probe>>

\* ------------------------------------------------------------ GET /report
get_latest_report ==
    /\ resp' = IF LegacyReportFile \notin DOMAIN reportFiles
               THEN [status |-> 404, body |-> <<"No reports available">>]
               ELSE IF reportFiles[LegacyReportFile].ok
                    THEN [status |-> 200,
                          body |-> reportFiles[LegacyReportFile].data]
                    ELSE [status |-> 500, body |-> <<>>]
    /\ UNCHANGED <<clock, nextFire, job, images, reportFiles, readableFiles,
                   summarizer, stored, log, probe>>

Next ==
    \/ Tick
    \/ scheduler
    \/ \E s \in Slots : process_screenshot(s)
    \/ get_latest_report

Spec == Init /\ [][Next]_vars

\* ======================================== preprocess_text on its own
\* pieces the input texts are put together from
TextTokens ==
    { <<"h", "t", "t", "p", ":", "/", "/">>,
      <<"h", "t", "t", "p", "s", ":", "/", "/">>,
      <<"w", "w", "w", ".">>,
      <<"a">>, <<"_">>, <<" ">>, <<"\t">>, <<NL>>, <<"?">>, <<"!">>, <<".">> }

MaxTokens == 3         \* pieces per input text

RECURSIVE TokenTexts(_)
TokenTexts(n) ==
    IF n = 0 THEN { <<>> }
    ELSE LET shorter == TokenTexts(n - 1)
         IN  shorter \cup { t \o k : t \in shorter, k \in TextTokens }

programVars == <<clock, nextFire, job, images, reportFiles, readableFiles,
                 summarizer, resp, stored, log>>

\* the program at rest, no run started and no file written
AtRest ==
    /\ clock = StartClock
    /\ nextFire = StartClock + 1
    /\ job = [s \in Slots |-> IdleJob]
    /\ images = {}
    /\ reportFiles = <<>>
    /\ readableFiles = <<>>
    /\ resp = [status |-> 0, body |-> <<>>]
    /\ stored = [d \in Dates |-> <<>>]
    /\ log = [d \in Dates |-> <<>>]

InitText ==
    /\ AtRest
    /\ summarizer = [c \in CleanTexts |-> "summary"]
    /\ probe \in { [stage |-> 0, text |-> t, once |-> <<>>, twice |-> <<>>] :
                     t \in TokenTexts(MaxTokens) }

\* cleaned_text = preprocess_text(text)
clean_text ==
    /\ probe.stage = 0
    /\ probe' = [probe EXCEPT !.stage = 1, !.once = preprocess_text(probe.text)]
    /\ UNCHANGED programVars

\* preprocess_text applied to a text that is already cleaned
clean_text_again ==
    /\ probe.stage = 1
    /\ probe' = [probe EXCEPT !.stage = 2, !.twice = preprocess_text(probe.once)]
    /\ UNCHANGED programVars

NextText == clean_text \/ clean_text_again

SpecText == InitText /\ [][NextText]_vars

\* ============================== generate_readable_report called twice
MaxReports == 2        \* reports in the sequence handed to the function

\* the sequences process_screenshot can build, timestamps in clock order
RECURSIVE ReportSeqs(_)
ReportSeqs(n) ==
    IF n = 0 THEN { <<>> }
    ELSE LET shorter == ReportSeqs(n - 1)
             Later(r) == { t \in StartClock..MaxClock :
                             \A i \in 1..Len(r) :
                                 strptime(r[i].analysis.timestamp) <= t }
         IN  shorter \cup
             UNION { { append_report(r, AnalysisReport(text, t)) :
                         text \in Texts, t \in Later(r) } :
                     r \in { q \in shorter : Len(q) = n - 1 } }

\* a run that has just stored reports and is about to call
\* generate_readable_report(existing_reports)
InitRegen ==
    \E reports \in ReportSeqs(MaxReports) \ { <<>> } :
        LET t == strptime(reports[Len(reports)].analysis.timestamp)
            report_file == ReportFile(today_date(t))
        IN  /\ clock = t
            /\ nextFire = MaxClock + 1
            /\ job = [s \in Slots |->
                        IF s = 1
                        THEN [IdleJob EXCEPT
                                 !.pc = "generate",
                                 !.screenshot_path = ScreenshotPath(t),
                                 !.report = reports[Len(reports)],
                                 !.report_file = report_file,
                                 !.existing_reports = reports]
                        ELSE IdleJob]
            /\ images = {ScreenshotPath(t)}
            /\ reportFiles = WriteFile(<<>>, report_file,
                                       [ok |-> TRUE, data |-> reports])
            /\ readableFiles = <<>>
            /\ summarizer \in [CleanTexts -> {"summary", "empty", "raise"}]
            /\ resp = [status |-> 0, body |-> <<>>]
            /\ stored = [d \in Dates |->
                            IF d = today_date(t) THEN reports ELSE <<>>]
            /\ log = [d \in Dates |->
                         IF d = today_date(t) THEN
                             [i \in 1..Len(reports) |-> reports[i].analysis]
                         ELSE <<>>]
            /\ probe = <<>>

\* the caller keeps what the call wrote and, the first time, calls again
\* with the same sequence
call_again(s) ==
    /\ job[s].pc = "cleanup"
    /\ Len(probe) < 2
    /\ probe' = Append(probe, readableFiles[ReadableFile(today_date(clock))])
    /\ job' = [job EXCEPT ![s].pc = IF Len(probe) = 0 THEN "generate"
                                    ELSE "cleanup"]
    /\ UNCHANGED <<clock, nextFire, images, reportFiles, readableFiles,
                   summarizer, resp, stored, log>>

\* time passes between the two calls
tick_before_call ==
    /\ \E s \in Slots : job[s].pc = "generate"
    /\ Tick

NextRegen ==
    \/ \E s \in Slots : generate_readable_report(s)
    \/ \E s \in Slots : call_again(s)
    \/ tick_before_call

SpecRegen == InitRegen /\ [][NextRegen]_vars

\* ================================================================ claims
Analyses(reports) == [i \in 1..Len(reports) |-> reports[i].analysis]

IsPrefix(a, b) == Len(a) <= Len(b) /\ SubSeq(b, 1, Len(a)) = a

Persisted(d) ==
    ReportFile(d) \in DOMAIN reportFiles /\ reportFiles[ReportFile(d)].ok

DailyReport(d) == reportFiles[ReportFile(d)].data

Finishes(s) == job[s].pc # "idle" /\ job'[s].pc = "idle"

\* C1: the report file of a date holds exactly the records of the runs whose
\* store write completed on that date, in run order, and every completed
\* write keeps the sequence stored before it as a prefix of the new one.
C1_AppendOnly ==
    /\ [](\A d \in Dates :
            Persisted(d) => /\ DailyReport(d) = stored[d]
                            /\ Analyses(DailyReport(d)) = log[d])
    /\ [][\A d \in Dates : /\ IsPrefix(stored[d], stored'[d])
                           /\ Len(stored'[d]) <= Len(stored[d]) + 1]_vars

C1_Witness ==
    \E d \in Dates : Persisted(d) /\ Len(DailyReport(d)) = 3 /\ Len(log[d]) = 3

C3_ReportServed ==
    [][get_latest_report =>
          (Persisted(today_date(clock)) =>
              /\ resp'.status = 200
              /\ resp'.body = DailyReport(today_date(clock)))]_vars

\* C4: at most one run is in flight, and a trigger that fires during a run
\* starts nothing and changes no file.
C4_SingleFlight ==
    /\ [](Cardinality(Running) <= 1)
    /\ [][(scheduler /\ Running # {}) =>
             UNCHANGED <<job, images, reportFiles, readableFiles>>]_vars

C4_Witness ==
    \E s \in Slots :
        /\ job[s].pc \notin {"idle", "capture"}
        /\ nextFire >= job[s].screenshot_path[2] + 2

\* C5: the report file of a date always holds a complete sequence: the one
\* stored by the last completed write.
C5_AtomicReplace ==
    \A d \in Dates :
        ReportFile(d) \in DOMAIN reportFiles =>
            Persisted(d) /\ DailyReport(d) = stored[d]

\* C6: a run that fails in capture or extraction leaves the report files
\* and the readable reports exactly as the run found them.
C6_FailedCaptureAppendsNothing ==
    [][\A s \in Slots :
          (Finishes(s) /\ job'[s].outcome \in {"capture_failed", "extract_failed"})
              => /\ reportFiles' = job[s].before.reports
                 /\ readableFiles' = job[s].before.readable]_vars

C6_Witness ==
    \E s \in Slots :
        /\ job[s].pc = "idle"
        /\ job[s].outcome = "extract_failed"
        /\ \E d \in Dates : Persisted(d) /\ Len(DailyReport(d)) >= 1

\* C7: a run that finds the report file of the date unparsable ends there
\* and leaves the file as it is; no run opens an unparsable file for writing.
C7_MalformedNotOverwritten ==
    /\ [][\A s \in Slots :
            (/\ job[s].pc = "load"
             /\ job'[s] # job[s]
             /\ ReportFile(today_date(clock)) \in DOMAIN reportFiles
             /\ ~Persisted(today_date(clock)))
                => /\ job'[s].pc = "idle"
                   /\ job'[s].outcome = "load_failed"
                   /\ reportFiles' = reportFiles]_vars
    /\ [](\A s \in Slots :
            job[s].pc = "open" =>
                \/ job[s].report_file \notin DOMAIN reportFiles
                \/ reportFiles[job[s].report_file].ok)

C7_Witness ==
    \E s \in Slots :
        /\ job[s].outcome = "load_failed"
        /\ \E d \in Dates :
              ReportFile(d) \in DOMAIN reportFiles /\ ~Persisted(d)

\* C8: when the summarizer fails for a record, the readable report of the
\* day is still written, one paragraph per record, with the placeholder
\* sentence for the records that could not be summarized.
C8_PlaceholderOnSummarizeFailure ==
    [][\A s \in Slots :
          (/\ job[s].pc = "generate"
           /\ job'[s] # job[s]
           /\ summarizer_raises(job[s].existing_reports, summarizer))
              => LET summary_file == ReadableFile(today_date(clock))
                     reports == job[s].existing_reports
                 IN  /\ summary_file \in DOMAIN readableFiles'
                     /\ Len(readableFiles'[summary_file]) = Len(reports)
                     /\ \A i \in 1..Len(reports) :
                           summarizer[preprocess_text(reports[i].analysis.text)]
                               = "raise"
                           => readableFiles'[summary_file][i].framed_text
                                  = NoSummary]_vars

\* C9: once no run is in flight, no screenshot or preprocessed image is left
\* in the screenshots directory.
C9_ArtifactsRemoved == Running = {} => images = {}

\* C10: a run that has captured and extracted can always read the report
\* file of the date, whatever happened to earlier runs.
C10_ErrorsIsolated ==
    \A s \in Slots :
        job[s].pc = "load" =>
            ~json_load_raises(reportFiles, ReportFile(today_date(clock)))

\* the duration a printed timedelta stands for, in ticks
timedelta_ticks(td) == td.days * DayLen + td.time

Last(reports) == reports[Len(reports)]

\* C11: in a persisted report of two or more records, the total_time of the
\* last record is its timestamp minus the timestamp of the first record.
C11_ElapsedSinceFirst ==
    \A d \in Dates :
        (Persisted(d) /\ Len(DailyReport(d)) >= 2) =>
            /\ "total_time" \in DOMAIN Last(DailyReport(d))
            /\ timedelta_ticks(Last(DailyReport(d)).total_time)
                 = strptime(Last(DailyReport(d)).analysis.timestamp)
                   - strptime(DailyReport(d)[1].analysis.timestamp)
            /\ Last(DailyReport(d)).total_time.time \in 0..(DayLen - 1)

C11_Witness ==
    \E d \in Dates :
        /\ Persisted(d)
        /\ Len(DailyReport(d)) >= 3
        /\ timedelta_ticks(Last(DailyReport(d)).total_time) >= 2
        /\ DailyReport(d)[2].analysis.timestamp
             # DailyReport(d)[1].analysis.timestamp

\* C12: a persisted report of one record has no total_time; in a report of
\* two records the second carries total_time and the first does not.
C12_FirstAndSecondAppend ==
    \A d \in Dates :
        Persisted(d) =>
            /\ Len(DailyReport(d)) = 1 =>
                  "total_time" \notin DOMAIN DailyReport(d)[1]
            /\ Len(DailyReport(d)) = 2 =>
                  /\ "total_time" \notin DOMAIN DailyReport(d)[1]
                  /\ "total_time" \in DOMAIN DailyReport(d)[2]

C12_Witness ==
    \E d \in Dates :
        /\ Persisted(d)
        /\ Len(DailyReport(d)) = 2
        /\ Len(stored[d]) = 2
        /\ \E s \in Slots : job[s].outcome = "ok"

\* C13: GET /report answers 404 when the report file of the current date
\* does not exist, and it never creates, changes or removes a file.
C13_ReadOnlyNotFound ==
    [][get_latest_report =>
          /\ ReportFile(today_date(clock)) \notin DOMAIN reportFiles
                => resp'.status = 404
          /\ UNCHANGED <<reportFiles, readableFiles, images>>]_vars

C13_Witness ==
    /\ resp.status = 404
    /\ ReportFile(today_date(clock)) \notin DOMAIN reportFiles
    /\ today_date(clock) > 0
    /\ Persisted(today_date(clock) - 1)

\* the step in which run s has written its readable report
WritesReadable(s) == job[s].pc = "generate" /\ job'[s].pc = "cleanup"

C15_PreprocessIdempotent ==
    probe.stage = 2 => probe.twice = probe.once

C15_Witness ==
    /\ probe.stage = 2
    /\ probe.once # probe.text
    /\ Len(probe.once) >= 2
    /\ \E i \in 1..Len(probe.text) : probe.text[i] = "?"

\* C16: two calls of generate_readable_report on the same sequence, with no
\* append in between, write the same readable report.
C16_RegenerateIdentical ==
    Len(probe) = 2 => probe[2] = probe[1]

C16_Witness ==
    /\ Len(probe) = 2
    /\ Len(probe[1]) = 2
    /\ Cardinality(DOMAIN readableFiles) = 1
    /\ \E i \in 1..2 : probe[1][i].framed_text = NoSummary

\* C17: a call of generate_readable_report, whether it returns or raises,
\* leaves every report file as it is and does not change the reports of the
\* sequence it was given; only a readable report file may change.
C17_RegenerationLeavesStore ==
    [][\A s \in Slots :
          (job[s].pc = "generate" /\ job'[s] # job[s]) =>
              /\ reportFiles' = reportFiles
              /\ images' = images
              /\ job'[s].pc = "cleanup" =>
                    job'[s].existing_reports = job[s].existing_reports
              /\ \A f \in DOMAIN readableFiles :
                    f \in DOMAIN readableFiles'
                    /\ (f # ReadableFile(today_date(clock)) =>
                           readableFiles'[f] = readableFiles[f])]_vars

C17_Witness ==
    \E s \in Slots :
        /\ job[s].pc = "cleanup"
        /\ Len(job[s].existing_reports) = 2
        /\ "total_time" \in DOMAIN job[s].existing_reports[2]
        /\ reportFiles[job[s].report_file].data = job[s].existing_reports
        /\ Cardinality(DOMAIN readableFiles) = 2

\* C18: every record of the report file of date d has a timestamp of date d.
C18_RecordInOwnPartition ==
    \A d \in Dates :
        Persisted(d) =>
            \A i \in 1..Len(DailyReport(d)) :
                DailyReport(d)[i].analysis.timestamp.date = d

\* C19: the readable report a run writes is the one of the date of the
\* report file the run appended to, and it is derived from that file.
C19_ReadableOfSameDate ==
    [][\A s \in Slots :
          WritesReadable(s) =>
              LET d == job[s].report_file[2]
              IN  /\ ReadableFile(d) \in DOMAIN readableFiles'
                  /\ readableFiles'[ReadableFile(d)]
                       = readable_report(reportFiles[ReportFile(d)].data,
                                         summarizer)
                  /\ \A f \in DOMAIN readableFiles' :
                        f # ReadableFile(d) =>
                            /\ f \in DOMAIN readableFiles
                            /\ readableFiles'[f] = readableFiles[f]]_vars

\* C20: with one run at a time and a clock that never goes back, the
\* timestamps of a persisted report are in non-decreasing order and every
\* total_time stands for a duration of zero or more.
C20_TimestampsOrdered ==
    \A d \in Dates :
        Persisted(d) =>
            /\ \A i, j \in 1..Len(DailyReport(d)) :
                  i < j => strptime(DailyReport(d)[i].analysis.timestamp)
                             <= strptime(DailyReport(d)[j].analysis.timestamp)
            /\ \A i \in 1..Len(DailyReport(d)) :
                  "total_time" \in DOMAIN DailyReport(d)[i] =>
                      /\ DailyReport(d)[i].total_time.days >= 0
                      /\ timedelta_ticks(DailyReport(d)[i].total_time) >= 0

C20_Witness ==
    \E d \in Dates :
        /\ Persisted(d)
        /\ Len(DailyReport(d)) = 3
        /\ strptime(DailyReport(d)[1].analysis.timestamp)
             < strptime(DailyReport(d)[2].analysis.timestamp)
        /\ strptime(DailyReport(d)[2].analysis.timestamp)
             < strptime(DailyReport(d)[3].analysis.timestamp)
        /\ DailyReport(d)[3].total_time.days >= 1
====
